---- MODULE Spec2Model ----
(***************************************************************************)
(* Model of the synthesis bindings of revkit (src/ext/synthesis.cpp):      *)
(* gray_synth, oracle_synth, diagonal_synth, dbs, tbs and lhrs.            *)
(*                                                                         *)
(* Each entry point is a call that starts from the idle state, runs the    *)
(* statements of its lambda and ends in the state "done".  The calls into  *)
(* the synthesis libraries are recorded in `invoked` (which library        *)
(* function was entered, with which arguments).                            *)
(*                                                                         *)
(* A uint32_t word is modelled as the set of its set bits, a subset of     *)
(* 0..MaskWidth-1, so that the 32 bits keep their width.                   *)
(***************************************************************************)
EXTENDS Integers, Sequences, FiniteSets

VARIABLES
  pc,            \* position in the running entry point
  op,            \* the entry point that was called ("none" before the call)
  parity_terms,  \* gray_synth: the py::args tuples
  idx,           \* gray_synth, oracle_synth: iterations of the loop done so far
  num_vars,      \* gray_synth: the local num_vars
  parities,      \* gray_synth: the add_term calls made on `parities`, in order
  shift_ub,      \* gray_synth: what this build makes of 1 << i for i >= 32
  function,      \* oracle_synth: the truth table argument
  kind,          \* oracle_synth, dbs: the oracle_synth_type argument
  circ,          \* oracle_synth, lhrs: the local netlist_t
  qubits,        \* oracle_synth: the local vector of qubit ids
  perm,          \* dbs, tbs: the permutation argument
  angles,        \* diagonal_synth: the angles argument
  filename,      \* lhrs: what is found at the path given
  ntk,           \* lhrs: the local logic network
  read_code,     \* lhrs: the code read_verilog returned
  st,            \* lhrs: the local logic_network_synthesis_stats
  stats,         \* lhrs: the local map stats
  invoked,       \* the library call made: a record, or NoCall
  result         \* what the entry point returned: a record, or NoResult

grayVars == <<parity_terms, num_vars, parities, shift_ub>>
oracleVars == <<function, qubits>>
lhrsVars == <<filename, ntk, read_code, st, stats>>

vars == <<pc, op, idx, kind, circ, perm, angles, grayVars, oracleVars, lhrsVars,
          invoked, result>>

NoCall == [fn |-> "none"]
NoResult == [kind |-> "none"]

----------------------------------------------------------------------------
(* Bounds and input universes                                              *)

MaskWidth == 32
MaxLen == 33
MaxTerms == 2
MaxAngle == 2
MaxVars == 2
MaxKind == 3
MaxBadLen == 3
MaxAngles == 5
MaxPis == 2
MaxPos == 2

\* lengths of the bitmask strings tried: the short ones and those around the
\* width of the mask
TermLens == (0..2) \cup ((MaskWidth - 1)..MaxLen)

Chars == {"0", "1", "x"}

\* the positions (1-based) of a string of length n whose character varies;
\* every other position holds '0'
FreePos(n) == {p \in {1, n} : p >= 1}

TermStrings ==
  UNION { { [p \in 1..n |-> IF p \in FreePos(n) THEN f[p] ELSE "0"] :
              f \in [FreePos(n) -> Chars] } : n \in TermLens }

Angles == 1..MaxAngle

Entries == [term : TermStrings, angle : Angles]

\* the argument lists of at most m tuples
TermLists(m) == UNION { [1..k -> Entries] : k \in 0..m }

\* 1 << i for i >= 32 is undefined: the shift count is taken modulo the
\* width (x86) or the result is 0 (a shifter that saturates)
ShiftOutcomes == {"wrap", "zero"}

----------------------------------------------------------------------------
(* Calls into the synthesis libraries                                      *)

\* what a library function does when entered with an argument outside its
\* documented domain: it returns some netlist, or the process is stopped
LibraryOutcomes == {"returns", "aborts"}

Unchecked(from, o) ==
  IF o = "returns" THEN [kind |-> "netlist", from |-> from, wellformed |-> FALSE]
  ELSE [kind |-> "abort", from |-> from]

----------------------------------------------------------------------------
(* gray_synth                                                              *)

\* the domain of the synthesizer: every mask lies within the nv variables
InGrayDomain(nv, ps) == \A k \in 1..Len(ps) : ps[k].term \subseteq 0..(nv - 1)

\* the bits `1 << i` contributes to the uint32_t iterm (1 << 31 is the int
\* with only the sign bit set, which |= converts to bit 31)
ShiftBit(i, ub) ==
  IF i < MaskWidth THEN {i}
  ELSE IF ub = "wrap" THEN {i % MaskWidth} ELSE {}

\* lines 65-72: the mask built from the string term (character i is term[i+1])
iterm(term, ub) ==
  UNION { ShiftBit(i, ub) : i \in {j \in 0..(Len(term) - 1) : term[j + 1] = "1"} }

gray_synth_call(terms) ==
  /\ pc = "idle"
  /\ pc' = "gray_loop"
  /\ op' = "gray_synth"
  /\ parity_terms' = terms
  /\ idx' = 0
  /\ num_vars' = 0
  /\ parities' = <<>>
  /\ \E ub \in ShiftOutcomes : shift_ub' = ub
  /\ UNCHANGED <<kind, circ, perm, angles, oracleVars, lhrsVars, invoked, result>>

\* one iteration of the loop over parity_terms (lines 54-74)
gray_synth_entry ==
  /\ pc = "gray_loop"
  /\ idx < Len(parity_terms)
  /\ LET entry == parity_terms[idx + 1]
     IN /\ num_vars' = IF num_vars = 0 THEN Len(entry.term) ELSE num_vars
        /\ parities' = Append(parities, [term |-> iterm(entry.term, shift_ub),
                                         angle |-> entry.angle])
  /\ idx' = idx + 1
  /\ UNCHANGED <<pc, op, parity_terms, shift_ub, kind, circ, perm, angles, oracleVars,
                 lhrsVars, invoked, result>>

\* line 75: return tweedledum::gray_synth<netlist_t>( num_vars, parities )
gray_synth_return ==
  /\ pc = "gray_loop"
  /\ idx = Len(parity_terms)
  /\ invoked' = [fn |-> "gray_synth", num_vars |-> num_vars, parities |-> parities]
  /\ IF InGrayDomain(num_vars, parities)
     THEN result' = [kind |-> "netlist", from |-> "gray_synth", wellformed |-> TRUE]
     ELSE \E o \in LibraryOutcomes : result' = Unchecked("gray_synth", o)
  /\ pc' = "done"
  /\ UNCHANGED <<op, idx, grayVars, kind, circ, perm, angles, oracleVars, lhrsVars>>

----------------------------------------------------------------------------
(* Netlist: a qubit register (qubits 0..num_qubits-1) and a gate list.     *)
(* A gate flips its targets when the values of its controls, read as a     *)
(* number (controls[k] gives bit k-1), are in its set tt.                  *)

EmptyCirc == [num_qubits |-> 0, gates |-> <<>>]

add_qubit(c) == [c EXCEPT !.num_qubits = @ + 1]

\* a netlist that puts a new gate in front of the others
add_gate_front(c, g) == [c EXCEPT !.gates = <<g>> \o @]

add_gate(c, g) == [c EXCEPT !.gates = Append(@, g)]

RECURSIVE add_gates(_, _)
add_gates(c, gs) ==
  IF gs = <<>> THEN c ELSE add_gates(add_gate(c, Head(gs)), Tail(gs))

GateQubits(g) == {g.controls[k] : k \in 1..Len(g.controls)} \cup g.targets

Bit(x, i) == (x \div (2 ^ i)) % 2

\* the widest register any call builds: MaxVars controls and a target
WordBits == MaxVars + 1

RECURSIVE SumPow2(_)
SumPow2(S) == IF S = {} THEN 0
              ELSE LET i == CHOOSE j \in S : TRUE IN (2 ^ i) + SumPow2(S \ {i})

\* the bit positions set in x, and the number with exactly the bits S set,
\* tabulated over the words of WordBits bits
BitsTab == [x \in 0..((2 ^ WordBits) - 1) |-> {i \in 0..(WordBits - 1) : Bit(x, i) = 1}]

ValTab == [S \in SUBSET (0..(WordBits - 1)) |-> SumPow2(S)]

BitsOf(x) == BitsTab[x]

Val(S) == ValTab[S]

XorTab == [a \in 0..((2 ^ WordBits) - 1) |->
             [b \in 0..((2 ^ WordBits) - 1) |->
                SumPow2((BitsTab[a] \ BitsTab[b]) \cup (BitsTab[b] \ BitsTab[a]))]]

Xor(a, b) == XorTab[a][b]

\* the elements of a set of numbers as an increasing sequence
RECURSIVE Sorted(_)
Sorted(S) ==
  IF S = {} THEN <<>>
  ELSE LET m == CHOOSE a \in S : \A b \in S : a <= b IN <<m>> \o Sorted(S \ {m})

----------------------------------------------------------------------------
(* The single-target-gate embedders: qs holds the control qubits followed  *)
(* by the target, f is a truth table [num_vars, bits] whose variable k is  *)
(* the control qs[k+1]; bits is the set of assignments f maps to 1.        *)

TruthTables(n) == { [num_vars |-> n, bits |-> b] : b \in SUBSET (0..((2 ^ n) - 1)) }

Odd(k) == k % 2 = 1

\* the qubits of qs selected by the variable set m, in increasing variable order
Pick(qs, m) == LET v == Sorted(m) IN [k \in 1..Len(v) |-> qs[v[k] + 1]]

\* positive-polarity Reed-Muller: one multi-controlled flip per monomial
pkrm_monomials(f) ==
  { m \in 0..((2 ^ f.num_vars) - 1) :
      Odd(Cardinality({x \in f.bits : BitsOf(x) \subseteq BitsOf(m)})) }

stg_from_pkrm(c, qs, f) ==
  LET ms == Sorted(pkrm_monomials(f))
      g(m) == LET ctl == Pick(qs, BitsOf(m))
              IN [controls |-> ctl, targets |-> {qs[Len(qs)]},
                  tt |-> {(2 ^ Len(ctl)) - 1}]
  IN add_gates(c, [k \in 1..Len(ms) |-> g(ms[k])])

\* the dual expansion: monomials over complemented variables
pprm_monomials(f) ==
  { m \in 0..((2 ^ f.num_vars) - 1) :
      Odd(Cardinality({x \in f.bits :
            ((0..(f.num_vars - 1)) \ BitsOf(x)) \subseteq BitsOf(m)})) }

stg_from_pprm(c, qs, f) ==
  LET ms == Sorted(pprm_monomials(f))
      g(m) == [controls |-> Pick(qs, BitsOf(m)),
               targets |-> {qs[Len(qs)]}, tt |-> {0}]
  IN add_gates(c, [k \in 1..Len(ms) |-> g(ms[k])])

\* the spectral embedding, by its net Boolean action: the target is flipped
\* exactly on the assignments of the controls that f maps to 1
stg_from_spectrum(c, qs, f) ==
  IF f.bits = {} THEN c
  ELSE add_gate(c, [controls |-> SubSeq(qs, 1, Len(qs) - 1),
                    targets |-> {qs[Len(qs)]}, tt |-> f.bits])

----------------------------------------------------------------------------
(* oracle_synth                                                            *)

\* enum class oracle_synth_type
pkrm == 0
pprm == 1
spectrum == 2

\* the values a kind argument may hold: the three enumerators and the values
\* of the underlying type that name none of them
KindValues == 0..MaxKind

\* an allocation loop that stops one qubit short
oracle_num_qubits_short(f) == f.num_vars

\* line 112: the bound of the allocation loop
oracle_num_qubits(f) == f.num_vars + 1

\* lines 116-117: a vector of n qubit ids filled by std::iota from 0
iota(n) == [j \in 1..n |-> j - 1]

\* lines 119-131 and 163-172: the embedder the switch selects
stg_of(k) ==
  CASE k = pkrm -> "stg_from_pkrm"
    [] k = pprm -> "stg_from_pprm"
    [] k = spectrum -> "stg_from_spectrum"
    [] OTHER -> "stg_from_spectrum"

stg(name, c, qs, f) ==
  CASE name = "stg_from_pkrm" -> stg_from_pkrm(c, qs, f)
    [] name = "stg_from_pprm" -> stg_from_pprm(c, qs, f)
    [] OTHER -> stg_from_spectrum(c, qs, f)

oracle_synth_call(f, k) ==
  /\ pc = "idle"
  /\ pc' = "oracle_alloc"
  /\ op' = "oracle_synth"
  /\ function' = f
  /\ kind' = k
  /\ circ' = EmptyCirc
  /\ idx' = 0
  /\ UNCHANGED <<qubits, perm, angles, grayVars, lhrsVars, invoked, result>>

\* lines 112-115: one iteration of the allocation loop
oracle_add_qubit ==
  /\ pc = "oracle_alloc"
  /\ idx < oracle_num_qubits(function)
  /\ circ' = add_qubit(circ)
  /\ idx' = idx + 1
  /\ UNCHANGED <<pc, op, kind, function, qubits, perm, angles, grayVars, lhrsVars,
                 invoked, result>>

\* lines 116-117, entered when the loop is left
oracle_iota ==
  /\ pc = "oracle_alloc"
  /\ ~(idx < oracle_num_qubits(function))
  /\ qubits' = iota(function.num_vars + 1)
  /\ pc' = "oracle_switch"
  /\ UNCHANGED <<op, idx, kind, circ, function, perm, angles, grayVars, lhrsVars,
                 invoked, result>>

\* lines 119-131: the embedder appends its gates to circ
oracle_switch ==
  /\ pc = "oracle_switch"
  /\ invoked' = [fn |-> stg_of(kind), qubits |-> qubits, function |-> function]
  /\ circ' = stg(stg_of(kind), circ, qubits, function)
  /\ pc' = "oracle_return"
  /\ UNCHANGED <<op, idx, kind, function, qubits, perm, angles, grayVars, lhrsVars, result>>

\* line 133
oracle_return ==
  /\ pc = "oracle_return"
  /\ result' = [kind |-> "netlist", from |-> "oracle_synth", circ |-> circ]
  /\ pc' = "done"
  /\ UNCHANGED <<op, idx, kind, circ, function, qubits, perm, angles, grayVars, lhrsVars,
                 invoked>>

----------------------------------------------------------------------------
(* Simulation of a netlist on a computational-basis state x (bit q of x is *)
(* the value of qubit q).                                                  *)

ControlIndex(g, x) ==
  Val({k - 1 : k \in {j \in 1..Len(g.controls) : Bit(x, g.controls[j]) = 1}})

ApplyGate(g, x) ==
  IF ControlIndex(g, x) \in g.tt THEN Xor(x, Val(g.targets)) ELSE x

RECURSIVE ApplyGates(_, _)
ApplyGates(gs, x) ==
  IF gs = <<>> THEN x ELSE ApplyGates(Tail(gs), ApplyGate(Head(gs), x))

Simulate(c, x) == ApplyGates(c.gates, x)

----------------------------------------------------------------------------
(* The permutation synthesizers.  A permutation of 0..2^n-1 is a sequence  *)
(* p of length 2^n; p[x+1] is the image of x.                              *)

IsPow2(k) == \E n \in 0..k : 2 ^ n = k

Log2(k) == CHOOSE n \in 0..k : 2 ^ n = k

IsPermutation(p) ==
  /\ IsPow2(Len(p))
  /\ \A v \in 0..(Len(p) - 1) : \E k \in 1..Len(p) : p[k] = v

RECURSIVE add_qubits(_, _)
add_qubits(c, n) == IF n = 0 THEN c ELSE add_qubits(add_qubit(c), n - 1)

\* every value z with all the bits of controls set gets the bits of targets flipped
update_permutation(p, controls, targets, n) ==
  [k \in 1..Len(p) |->
     IF BitsOf(controls) \subseteq BitsOf(p[k])
     THEN Xor(p[k], targets) ELSE p[k]]

\* transformation-based synthesis, one pass over the rows x = 0, 1, ...; the
\* gates come out last-found first
RECURSIVE tbs_rows(_, _, _, _)
tbs_rows(p, x, gates, n) ==
  IF x = Len(p) THEN gates
  ELSE IF p[x + 1] = x THEN tbs_rows(p, x + 1, gates, n)
  ELSE LET y == p[x + 1]
           t01 == Val(BitsOf(x) \ BitsOf(y))
           p1 == IF t01 # 0 THEN update_permutation(p, y, t01, n) ELSE p
           g1 == IF t01 # 0 THEN <<[c |-> y, t |-> t01]>> \o gates ELSE gates
           t10 == Val(BitsOf(y) \ BitsOf(x))
           p2 == IF t10 # 0 THEN update_permutation(p1, x, t10, n) ELSE p1
           g2 == IF t10 # 0 THEN <<[c |-> x, t |-> t10]>> \o g1 ELSE g1
       IN tbs_rows(p2, x + 1, g2, n)

tweedledum_tbs(p) ==
  LET n == Log2(Len(p))
      gs == tbs_rows(p, 0, <<>>, n)
      mcx(g) == LET ctl == Sorted(BitsOf(g.c))
                IN [controls |-> ctl, targets |-> BitsOf(g.t),
                    tt |-> {(2 ^ Len(ctl)) - 1}]
  IN add_gates(add_qubits(EmptyCirc, n), [k \in 1..Len(gs) |-> mcx(gs[k])])

\* x without its bit var
Squeeze(x, var) == (x % (2 ^ var)) + ((x \div (2 ^ (var + 1))) * (2 ^ var))

IndexOf(p, v) == (CHOOSE k \in 1..Len(p) : p[k] = v) - 1

\* one step of the decomposition of p on the variable var: left and right
\* are maps that change at most the bit var; the loop walks the cycles of
\* rows and images that share all bits but var
RECURSIVE decompose_rows(_, _, _, _, _, _, _)
decompose_rows(p, var, left, right, visited, row, n) ==
  LET free == (0..(Len(p) - 1)) \ visited
  IN IF row \in visited /\ free = {} THEN [left |-> left, right |-> right]
     ELSE LET r0 == IF row \in visited
                    THEN CHOOSE a \in free : \A b \in free : a <= b
                    ELSE row
              bit == 2 ^ var
              l0 == r0 - (Bit(r0, var) * bit)
              r1 == Xor(r0, bit)
              left1 == [left EXCEPT ![r0 + 1] = l0, ![r1 + 1] = l0 + bit]
              pr == p[r1 + 1]
              hi == pr + ((1 - Bit(pr, var)) * bit)
              lo == pr - (Bit(pr, var) * bit)
              right1 == [right EXCEPT ![hi + 1] = pr, ![lo + 1] = Xor(pr, bit)]
          IN decompose_rows(p, var, left1, right1, visited \cup {r0, r1},
                            IndexOf(p, Xor(pr, bit)), n)

decompose(p, var, n) ==
  LET z == [k \in 1..Len(p) |-> 0]
      lr == decompose_rows(p, var, z, z, {}, 0, n)
  IN [left |-> lr.left, right |-> lr.right,
      perm |-> [k \in 1..Len(p) |->
                  lr.right[p[IndexOf(lr.left, k - 1) + 1] + 1]]]

\* the control function of a map that changes at most the bit var, over the
\* other n-1 variables
control_function(m, var, n) ==
  [num_vars |-> n - 1,
   bits |-> {Squeeze(x, var) : x \in {y \in 0..(Len(m) - 1) : m[y + 1] # y}}]

\* the other qubits in increasing order, then the target var
get_inputs(var, n) == Sorted((0..(n - 1)) \ {var}) \o <<var>>

\* the gates of the variables var..n-1: left maps first, right maps last
RECURSIVE dbs_gates(_, _, _)
dbs_gates(p, var, n) ==
  IF var = n THEN <<>>
  ELSE LET d == decompose(p, var, n)
       IN <<[var |-> var, fn |-> control_function(d.left, var, n)]>>
          \o dbs_gates(d.perm, var + 1, n)
          \o <<[var |-> var, fn |-> control_function(d.right, var, n)]>>

RECURSIVE dbs_embed(_, _, _, _)
dbs_embed(c, gs, name, n) ==
  IF gs = <<>> THEN c
  ELSE dbs_embed(stg(name, c, get_inputs(Head(gs).var, n), Head(gs).fn),
                 Tail(gs), name, n)

tweedledum_dbs(p, name) ==
  LET n == Log2(Len(p))
  IN dbs_embed(add_qubits(EmptyCirc, n), dbs_gates(p, 0, n), name, n)

----------------------------------------------------------------------------
(* dbs and tbs                                                             *)

RECURSIVE PermsOf(_)
PermsOf(S) ==
  IF S = {} THEN {<<>>}
  ELSE UNION { { <<v>> \o q : q \in PermsOf(S \ {v}) } : v \in S }

\* the permutations of 0..2^n-1 for n = 0..m
ValidPerms(m) == UNION { PermsOf(0..((2 ^ n) - 1)) : n \in 0..m }

\* the short lists that are no permutation of any 0..2^n-1: a repeated value,
\* a value out of range, a length that is no power of two
BadPerms(m) ==
  { p \in UNION { [1..k -> 0..m] : k \in 0..m } : ~IsPermutation(p) }

\* lines 163-172: the netlist the switch returns
dbs_result(p, k) == tweedledum_dbs(p, stg_of(k))

\* line 185
tbs_result(p) == tweedledum_tbs(p)

\* line 162: the call binds perm and kind
dbs_call(p, k) ==
  /\ pc = "idle"
  /\ op' = "dbs"
  /\ perm' = p
  /\ kind' = k
  /\ pc' = "dbs_switch"
  /\ UNCHANGED <<idx, circ, angles, grayVars, oracleVars, lhrsVars, invoked, result>>

\* lines 163-172: the switch enters tweedledum::dbs and returns its netlist
dbs_switch ==
  /\ pc = "dbs_switch"
  /\ invoked' = [fn |-> "dbs", perm |-> perm, stg |-> stg_of(kind)]
  /\ IF IsPermutation(perm)
     THEN result' = [kind |-> "netlist", from |-> "dbs", wellformed |-> TRUE,
                     circ |-> dbs_result(perm, kind)]
     ELSE \E o \in LibraryOutcomes : result' = Unchecked("dbs", o)
  /\ pc' = "done"
  /\ UNCHANGED <<op, idx, kind, circ, perm, angles, grayVars, oracleVars, lhrsVars>>

\* line 185: the call binds perm
tbs_call(p) ==
  /\ pc = "idle"
  /\ op' = "tbs"
  /\ perm' = p
  /\ pc' = "tbs_body"
  /\ UNCHANGED <<idx, kind, circ, angles, grayVars, oracleVars, lhrsVars, invoked, result>>

\* line 185: the body enters tweedledum::tbs and returns its netlist
tbs_body ==
  /\ pc = "tbs_body"
  /\ invoked' = [fn |-> "tbs", perm |-> perm]
  /\ IF IsPermutation(perm)
     THEN result' = [kind |-> "netlist", from |-> "tbs", wellformed |-> TRUE,
                     circ |-> tbs_result(perm)]
     ELSE \E o \in LibraryOutcomes : result' = Unchecked("tbs", o)
  /\ pc' = "done"
  /\ UNCHANGED <<op, idx, kind, circ, perm, angles, grayVars, oracleVars, lhrsVars>>

----------------------------------------------------------------------------
(* diagonal_synth                                                          *)

AngleLists(m) == UNION { [1..k -> Angles] : k \in 0..m }

\* the documented domain: 2^n - 1 angles
IsAngleVector(a) == IsPow2(Len(a) + 1)

\* lines 147-149
diagonal_synth_call(a) ==
  /\ pc = "idle"
  /\ op' = "diagonal_synth"
  /\ angles' = a
  /\ invoked' = [fn |-> "diagonal_synth", angles |-> a]
  /\ IF IsAngleVector(a)
     THEN result' = [kind |-> "netlist", from |-> "diagonal_synth", wellformed |-> TRUE]
     ELSE \E o \in LibraryOutcomes : result' = Unchecked("diagonal_synth", o)
  /\ pc' = "done"
  /\ UNCHANGED <<idx, kind, circ, perm, grayVars, oracleVars, lhrsVars>>

----------------------------------------------------------------------------
(* lhrs                                                                    *)

\* what is found at a path: nothing readable, a text that does not parse
\* (pis and pos: the inputs and outputs declared before the error), or a
\* network with pis primary inputs and pos primary outputs
Sources ==
  {[status |-> "unreadable", pis |-> 0, pos |-> 0]}
  \cup [status : {"unparsable", "ok"}, pis : 0..MaxPis, pos : 0..MaxPos]

EmptyNtk == [pis |-> 0, pos |-> 0]

\* line 33: the reader fills ntk as it parses; read_verilog returns a code
read_verilog(src) ==
  [code |-> IF src.status = "ok" THEN "success" ELSE "parse_error",
   ntk |-> [pis |-> src.pis, pos |-> src.pos]]

\* the results the network synthesizer may produce for ntk: a qubit per
\* primary input, up to one further qubit per output, each output on some
\* qubit, one gate per output placed on a further qubit
logic_network_synthesis(n) ==
  UNION { { [circ |-> [num_qubits |-> n.pis + a,
                       gates |-> LET os == Sorted({o[k] : k \in 1..n.pos} \ (0..(n.pis - 1)))
                                 IN [k \in 1..Len(os) |->
                                       [controls |-> iota(n.pis), targets |-> {os[k]},
                                        tt |-> {(2 ^ n.pis) - 1}]]],
             i_indexes |-> iota(n.pis),
             o_indexes |-> o] :
            o \in [1..n.pos -> 0..(n.pis + a - 1)] } : a \in 0..n.pos }

\* an export that stores the two index vectors under each other's key
lhrs_stats_swapped(s) == [input_indexes |-> s.o_indexes, output_indexes |-> s.i_indexes]

\* lines 39-41
lhrs_stats(s) == [input_indexes |-> s.i_indexes, output_indexes |-> s.o_indexes]

\* lines 195-196 and 31
lhrs_call(src) ==
  /\ pc = "idle"
  /\ op' = "lhrs"
  /\ filename' = src
  /\ ntk' = EmptyNtk
  /\ pc' = "lhrs_read"
  /\ UNCHANGED <<idx, kind, circ, perm, angles, grayVars, oracleVars,
                 read_code, st, stats, invoked, result>>

\* line 33: the code read_verilog returns is not looked at
lhrs_read ==
  /\ pc = "lhrs_read"
  /\ ntk' = read_verilog(filename).ntk
  /\ read_code' = read_verilog(filename).code
  /\ pc' = "lhrs_synthesis"
  /\ UNCHANGED <<op, idx, kind, circ, perm, angles, grayVars, oracleVars,
                 filename, st, stats, invoked, result>>

\* lines 35-37
lhrs_synthesis ==
  /\ pc = "lhrs_synthesis"
  /\ \E out \in logic_network_synthesis(ntk) :
        /\ circ' = out.circ
        /\ st' = [i_indexes |-> out.i_indexes, o_indexes |-> out.o_indexes]
        /\ invoked' = [fn |-> "logic_network_synthesis", ntk |-> ntk,
                       circ |-> out.circ, i_indexes |-> out.i_indexes,
                       o_indexes |-> out.o_indexes]
  /\ pc' = "lhrs_stats"
  /\ UNCHANGED <<op, idx, kind, perm, angles, grayVars, oracleVars,
                 filename, ntk, read_code, stats, result>>

\* lines 39-41
lhrs_export ==
  /\ pc = "lhrs_stats"
  /\ stats' = lhrs_stats(st)
  /\ pc' = "lhrs_return"
  /\ UNCHANGED <<op, idx, kind, circ, perm, angles, grayVars, oracleVars,
                 filename, ntk, read_code, st, invoked, result>>

\* line 43
lhrs_return ==
  /\ pc = "lhrs_return"
  /\ result' = [kind |-> "pair", from |-> "lhrs", circ |-> circ, stats |-> stats]
  /\ pc' = "done"
  /\ UNCHANGED <<op, idx, kind, circ, perm, angles, grayVars, oracleVars,
                 lhrsVars, invoked>>

----------------------------------------------------------------------------

Init ==
  /\ pc = "idle"
  /\ op = "none"
  /\ idx = 0
  /\ parity_terms = <<>>
  /\ num_vars = 0
  /\ parities = <<>>
  /\ shift_ub = "none"
  /\ function = [num_vars |-> 0, bits |-> {}]
  /\ kind = spectrum
  /\ circ = EmptyCirc
  /\ qubits = <<>>
  /\ perm = <<>>
  /\ angles = <<>>
  /\ filename = [status |-> "unreadable", pis |-> 0, pos |-> 0]
  /\ ntk = EmptyNtk
  /\ read_code = "none"
  /\ st = [i_indexes |-> <<>>, o_indexes |-> <<>>]
  /\ stats = <<>>
  /\ invoked = NoCall
  /\ result = NoResult

GrayNext ==
  \/ pc = "idle" /\ \E terms \in TermLists(MaxTerms) : gray_synth_call(terms)
  \/ gray_synth_entry
  \/ gray_synth_return

OracleNext ==
  \/ pc = "idle" /\ \E n \in 0..MaxVars : \E f \in TruthTables(n) :
        \E k \in KindValues : oracle_synth_call(f, k)
  \/ oracle_add_qubit
  \/ oracle_iota
  \/ oracle_switch
  \/ oracle_return

DiagonalNext ==
  pc = "idle" /\ \E a \in AngleLists(MaxAngles) : diagonal_synth_call(a)

PermNext ==
  \/ pc = "idle" /\ \E p \in ValidPerms(MaxVars) \cup BadPerms(MaxBadLen) :
        \E k \in KindValues : dbs_call(p, k)
  \/ pc = "idle" /\ \E p \in ValidPerms(MaxVars) \cup BadPerms(MaxBadLen) : tbs_call(p)
  \/ dbs_switch
  \/ tbs_body

LhrsNext ==
  \/ pc = "idle" /\ \E src \in Sources : lhrs_call(src)
  \/ lhrs_read
  \/ lhrs_synthesis
  \/ lhrs_export
  \/ lhrs_return

Next == GrayNext \/ OracleNext \/ DiagonalNext \/ PermNext \/ LhrsNext

\* every entry point
Spec == Init /\ [][Next]_vars

\* one entry point (the calls share no state)
SpecGray == Init /\ [][GrayNext]_vars
SpecOracle == Init /\ [][OracleNext]_vars
SpecPerm == Init /\ [][PermNext]_vars
SpecLhrs == Init /\ [][LhrsNext]_vars

----------------------------------------------------------------------------
(* Properties                                                              *)

Recognized == {pkrm, pprm, spectrum}

SameWidth(terms) ==
  \A j, k \in 1..Len(terms) : Len(terms[j].term) = Len(terms[k].term)

\* the mask the documentation describes: bit i is set exactly when character
\* i of the string is '1'
DocMask(term) == {i \in 0..(Len(term) - 1) : term[i + 1] = "1"}

InRegister(c) ==
  \A k \in 1..Len(c.gates) : GateQubits(c.gates[k]) \subseteq 0..(c.num_qubits - 1)

\* C1: oracle_synth allocates exactly num_vars+1 qubits, 0..num_vars, before
\* any gate is appended; the embedder is handed them in increasing order
\* (controls 0..num_vars-1, target num_vars); no further qubit is allocated;
\* every gate refers to allocated qubits only.
C1_OracleAllocatesBeforeGates ==
  op = "oracle_synth" =>
    LET n == function.num_vars IN
    /\ pc = "oracle_alloc" =>
         /\ circ.gates = <<>>
         /\ invoked.fn = "none"
         /\ circ.num_qubits = idx
         /\ circ.num_qubits <= n + 1
    /\ pc \in {"oracle_switch", "oracle_return", "done"} =>
         /\ circ.num_qubits = n + 1
         /\ qubits = [j \in 1..(n + 1) |-> j - 1]
    /\ invoked.fn # "none" =>
         /\ invoked.qubits = [j \in 1..(n + 1) |-> j - 1]
         /\ invoked.function = function
    /\ InRegister(circ)
    /\ \A k \in 1..Len(circ.gates) :
         /\ circ.gates[k].targets = {n}
         /\ \A j \in 1..Len(circ.gates[k].controls) :
              circ.gates[k].controls[j] \in 0..(n - 1)
    /\ pc = "done" =>
         /\ result.kind = "netlist"
         /\ result.circ = circ
         /\ result.circ.num_qubits = n + 1

C1_Witness ==
  /\ pc = "done"
  /\ op = "oracle_synth"
  /\ function.num_vars = MaxVars
  /\ Len(result.circ.gates) >= 2

\* C2: the num_vars handed to the synthesizer is the length of the first
\* term's string, whatever the later lengths are, the empty first string
\* included.
C2_NumVarsIsFirstLength ==
  (pc = "done" /\ op = "gray_synth" /\ Len(parity_terms) >= 1) =>
     invoked.num_vars = Len(parity_terms[1].term)

\* C3: terms whose strings differ in length are rejected: the synthesizer is
\* not entered with them and no netlist is returned.
C3_MixedWidthsRejected ==
  (op = "gray_synth" /\ ~SameWidth(parity_terms)) =>
     /\ invoked.fn = "none"
     /\ result.kind # "netlist"

\* C4: an angle vector whose length is not 2^n-1 gets no netlist.
C4_BadAngleLengthRejected ==
  (op = "diagonal_synth" /\ ~IsAngleVector(angles)) => result.kind # "netlist"

\* C5: a list that is no permutation of 0..2^n-1 gets no netlist from dbs
\* or tbs.
C5_NonBijectionRejected ==
  (op \in {"dbs", "tbs"} /\ ~IsPermutation(perm)) => result.kind # "netlist"

\* C6: a kind outside {spectrum, pkrm, pprm} is rejected by oracle_synth and
\* dbs: no embedder is selected for it and no netlist is produced.
C6_UnknownKindRejected ==
  (op \in {"oracle_synth", "dbs"} /\ kind \notin Recognized) =>
     /\ invoked.fn = "none"
     /\ result.kind # "netlist"

\* C7: when the source cannot be read or parsed, the network synthesizer is
\* not run and no netlist/statistics pair is returned.
C7_ReadFailureStopsLhrs ==
  (op = "lhrs" /\ read_code = "parse_error") =>
     /\ invoked.fn # "logic_network_synthesis"
     /\ result.kind # "pair"

\* C8: a call of lhrs that returns gives statistics with exactly the keys
\* input_indexes and output_indexes, holding the synthesizer's index
\* sequences unchanged, and the netlist the synthesizer filled.
C8_LhrsExportsVerbatim ==
  (pc = "done" /\ op = "lhrs") =>
     /\ result.kind = "pair"
     /\ DOMAIN result.stats = {"input_indexes", "output_indexes"}
     /\ result.stats["input_indexes"] = invoked.i_indexes
     /\ result.stats["output_indexes"] = invoked.o_indexes
     /\ result.circ = invoked.circ

C8_Witness ==
  /\ pc = "done"
  /\ op = "lhrs"
  /\ read_code = "success"
  /\ Len(invoked.i_indexes) = 2
  /\ Len(invoked.o_indexes) = 2
  /\ invoked.i_indexes # invoked.o_indexes
  /\ invoked.circ.gates # <<>>

\* C9: for every permutation p of 0..2^n-1 the netlists of tbs and of dbs
\* (every kind) take each basis state x to p(x).
C9_PermutationRoundTrip ==
  (pc = "done" /\ op \in {"dbs", "tbs"} /\ IsPermutation(perm)) =>
     /\ result.kind = "netlist"
     /\ result.circ.num_qubits = Log2(Len(perm))
     /\ InRegister(result.circ)
     /\ \A x \in 0..(Len(perm) - 1) : Simulate(result.circ, x) = perm[x + 1]

\* tbs([1,0,2,3]) maps 0 to 1, 1 to 0, 2 to 2 and 3 to 3
C9_Witness ==
  /\ pc = "done"
  /\ op = "tbs"
  /\ perm = <<1, 0, 2, 3>>
  /\ result.circ.gates # <<>>
  /\ Simulate(result.circ, 0) = 1
  /\ Simulate(result.circ, 1) = 0
  /\ Simulate(result.circ, 2) = 2
  /\ Simulate(result.circ, 3) = 3

\* C10: one term is added per tuple, in order, with the tuple's angle and
\* with the mask that has bit i set exactly when character i is '1', for
\* every string length.
C10_MaskMatchesString ==
  op = "gray_synth" =>
     /\ Len(parities) = idx
     /\ \A k \in 1..Len(parities) :
          /\ parities[k].angle = parity_terms[k].angle
          /\ parities[k].term = DocMask(parity_terms[k].term)

====
